---- MODULE Spec2Model ----
(***************************************************************************)
(* A model of the Sudoku game of src/src/App.vue: the grid generator       *)
(* (isValid, fillGrid, removeNumbers, hashPuzzle, generateSudoku,          *)
(* initBoard) as operators over 9x9 grids, and the session (board, hints,  *)
(* timer, modals, history) as a state machine with one action per handler. *)
(*                                                                         *)
(* Math.random is an input.  A run of the generator draws it from a seed:  *)
(* the digit order of a fillGrid visit and the cells removeNumbers picks   *)
(* are functions of the seed, and the seeds range over a bounded set.      *)
(***************************************************************************)
EXTENDS Integers, Sequences, FiniteSets

\* ------------------------------------------------------------------------
\* Bounds of the model (not program constants)
\* ------------------------------------------------------------------------
\* Math.random streams fillGrid is run under, on its own (0 .. MaxSeed).
MaxSeed == 53

\* Math.random streams removeNumbers is run under, on its own.
MaxCarveSeed == 2

\* Complete grids removeNumbers is run on, on its own (0 .. MaxShift).
MaxShift == 1

\* Math.random streams a started game generates its puzzle under.
MaxGameSeed == 1

\* Intervals alive at the same time.
MaxTimers == 2

\* Elapsed seconds.
MaxTime == 1

\* Entries of the history a session may reach.
MaxHistory == 2

\* Wall-clock instants Date.now() returns (0 .. MaxNow).
MaxNow == 0

\* Entries of the history at a reload of the page.
MaxReloadHistory == 0

\* Hints the player takes in a session.
MaxHints == 1

\* Empty cells left on the board when the player turns to the pause, history
\* and give-up buttons.
MaxOpen == 1

\* hashPuzzle is compared on grids that differ in the cells 0 .. MaxHashCell.
MaxHashCell == 1

\* fillGrid is run on partial grids with at most MaxBlanks cells of the pool
\* blanked, under the streams of shuffles 0 .. MaxPartialSeed.
MaxBlanks == 4

MaxPartialSeed == 1

\* ------------------------------------------------------------------------
\* Program constants
\* ------------------------------------------------------------------------
Size == 9

Box == 3

Idx == 0 .. (Size - 1)

Digits == 1 .. Size

NULL == 0

Difficulties == {"tutorial", "facil", "medio", "dificil", "expert"}

difficultySettings ==
  [tutorial |-> 10, facil |-> 30, medio |-> 40, dificil |-> 50, expert |-> 64]

hintsSettings ==
  [tutorial |-> 7, facil |-> 5, medio |-> 3, dificil |-> 1, expert |-> 0]

maxAttempts == 10

HistoryCap == 50

\* Math.random() returns x / RandomPeriod, 0 <= x < RandomPeriod.
RandomPeriod == 243


\* ------------------------------------------------------------------------
\* Grids
\* ------------------------------------------------------------------------
EmptyGrid == [r \in Idx |-> [c \in Idx |-> 0]]

\* The cells in row-major order, numbered 0 .. 80.
CellRow(k) == k \div Size

CellCol(k) == k % Size

Cells == 0 .. (Size * Size - 1)

NonZeroCount(grid) == Cardinality({k \in Cells : grid[CellRow(k)][CellCol(k)] # 0})

\* isValid without the scan of the 3x3 block.
isValidNoBlock(grid, row, col, num) ==
  /\ \A x \in Idx : grid[row][x] # num
  /\ \A x \in Idx : grid[x][col] # num

\* isValid: num appears neither in the row, nor in the column, nor in the block.
\* isValid without the test of the column.
isValidNoColumn(grid, row, col, num) ==
  LET startRow == row - (row % Box)
      startCol == col - (col % Box)
  IN  /\ \A x \in Idx : grid[row][x] # num
      /\ \A i \in 0 .. (Box - 1) : \A j \in 0 .. (Box - 1) :
            grid[i + startRow][j + startCol] # num

isValid(grid, row, col, num) ==
  LET startRow == row - (row % Box)
      startCol == col - (col % Box)
  IN  /\ \A x \in Idx : grid[row][x] # num
      /\ \A x \in Idx : grid[x][col] # num
      /\ \A i \in 0 .. (Box - 1) : \A j \in 0 .. (Box - 1) :
            grid[i + startRow][j + startCol] # num

\* The digit order [1..9].sort(() => Math.random() - 0.5) yields at the visit
\* of cell (row, col), under the given seed: the affine permutation
\* i |-> a*i + b (mod 9), a coprime to 9, with a and b drawn from the seed.
Multipliers == <<1, 2, 4, 5, 7, 8>>

shuffledNumbers(seed, row, col) ==
  LET a == Multipliers[(((seed \div Size) + row + 2 * col) % 6) + 1]
      b == (seed + 3 * row + col) % Size
  IN  [i \in 1 .. Size |-> ((a * (i - 1) + b) % Size) + 1]

\* Index (row-major) of the first empty cell, or -1 when the grid is full.
FirstEmptyCell(grid) ==
  LET empties == {k \in Cells : grid[CellRow(k)][CellCol(k)] = 0}
  IN  IF empties = {} THEN -1
      ELSE CHOOSE k \in empties : \A m \in empties : k <= m

\* ------------------------------------------------------------------------
\* State
\* ------------------------------------------------------------------------
VARIABLES
  pc,          \* position of the running handler; "idle": the event loop
  grid,        \* the grid fillGrid and removeNumbers mutate in place
  stack,       \* fillGrid's call stack: the cell and digit index of each call
  ret,         \* the value the fillGrid call that just returned has returned
  seed,        \* the Math.random stream of the running fillGrid
  rng,         \* the Math.random stream of the running removeNumbers
  count,       \* removeNumbers' parameter
  removed,     \* removeNumbers' counter
  completeSolution,  \* generateSudoku's copy of the filled grid
  attempts,    \* initBoard's counter
  board, solution, showModal, showGiveUpModal, showVictoryModal,
  showHistoryModal, hasGivenUp, selectedDifficulty, gameStarted, isPaused,
  elapsedTime, hintsRemaining, gameHistory, currentPuzzleHash,
  timerInterval,     \* the handle: NULL or the id of an interval
  intervals,   \* the ids of the intervals that are alive
  localStorage,  \* the item "sudoku-history"
  uncaught     \* the exception that left onMounted uncaught, or "none"

genVars == <<pc, grid, stack, ret, seed, rng, count, removed, completeSolution, attempts>>

boardVars == <<board, solution, hintsRemaining, currentPuzzleHash>>

modalVars == <<showModal, showGiveUpModal, showVictoryModal, showHistoryModal,
               hasGivenUp, selectedDifficulty, gameStarted, isPaused>>

timerVars == <<elapsedTime, timerInterval, intervals>>

historyVars == <<gameHistory, localStorage, uncaught>>

sessionVars == <<boardVars, modalVars, timerVars, historyVars>>

vars == <<genVars, sessionVars>>

\* The refs as the script's top level creates them (lines 20-34), before
\* onMounted has run.
Constructed ==
  /\ board = <<>>
  /\ solution = <<>>
  /\ showModal = TRUE
  /\ showGiveUpModal = FALSE
  /\ showVictoryModal = FALSE
  /\ showHistoryModal = FALSE
  /\ hasGivenUp = FALSE
  /\ selectedDifficulty = "medio"
  /\ gameStarted = FALSE
  /\ isPaused = FALSE
  /\ elapsedTime = 0
  /\ hintsRemaining = 0
  /\ currentPuzzleHash = <<>>
  /\ timerInterval = NULL
  /\ intervals = {}

\* ------------------------------------------------------------------------
\* fillGrid, one step per call, per placed digit and per return
\* ------------------------------------------------------------------------
\* Entry of a fillGrid call: the scan for the first empty cell.  No empty cell:
\* the call returns true.  Otherwise the digits are shuffled and the loop over
\* them starts at that cell.
fillGridCall ==
  /\ pc = "fillGrid"
  /\ LET k == FirstEmptyCell(grid)
     IN  IF k = -1
         THEN /\ ret' = TRUE
              /\ pc' = "return"
              /\ stack' = stack
         ELSE /\ stack' = Append(stack, [row |-> CellRow(k), col |-> CellCol(k), i |-> 0])
              /\ pc' = "numbers"
              /\ ret' = ret
  /\ UNCHANGED <<grid, seed, rng, count, removed, completeSolution, attempts, sessionVars>>

\* The loop leaving at the first digit whose recursive call has failed.
fillGridNumbersOnce ==
  /\ pc = "numbers"
  /\ LET top == stack[Len(stack)]
         numbers == shuffledNumbers(seed, top.row, top.col)
         accepted == {j \in (top.i + 1) .. Size :
                       top.i = 0 /\ isValid(grid, top.row, top.col, numbers[j])}
     IN  IF accepted = {}
         THEN /\ stack' = SubSeq(stack, 1, Len(stack) - 1)
              /\ ret' = FALSE
              /\ pc' = "return"
              /\ grid' = grid
         ELSE LET j == CHOOSE n \in accepted : \A m \in accepted : n <= m
              IN  /\ grid' = [grid EXCEPT ![top.row][top.col] = numbers[j]]
                  /\ stack' = [stack EXCEPT ![Len(stack)].i = j]
                  /\ pc' = "fillGrid"
                  /\ ret' = ret
  /\ UNCHANGED <<seed, rng, count, removed, completeSolution, attempts, sessionVars>>

\* The loop `for (const num of numbers)` of the innermost call, after its
\* i-th digit: the digits isValid rejects are passed over, the first one it
\* accepts is placed and fillGrid is called; with no digit left the call
\* returns false.
fillGridNumbers ==
  /\ pc = "numbers"
  /\ LET top == stack[Len(stack)]
         numbers == shuffledNumbers(seed, top.row, top.col)
         accepted == {j \in (top.i + 1) .. Size : isValid(grid, top.row, top.col, numbers[j])}
     IN  IF accepted = {}
         THEN /\ stack' = SubSeq(stack, 1, Len(stack) - 1)
              /\ ret' = FALSE
              /\ pc' = "return"
              /\ grid' = grid
         ELSE LET j == CHOOSE n \in accepted : \A m \in accepted : n <= m
              IN  /\ grid' = [grid EXCEPT ![top.row][top.col] = numbers[j]]
                  /\ stack' = [stack EXCEPT ![Len(stack)].i = j]
                  /\ pc' = "fillGrid"
                  /\ ret' = ret
  /\ UNCHANGED <<seed, rng, count, removed, completeSolution, attempts, sessionVars>>

\* fillGridReturn written as `return fillGrid(grid)`: a failed recursive call
\* makes the caller fail too, without a try of the digits that are left.
fillGridReturnDirect ==
  /\ pc = "return"
  /\ IF stack = <<>>
     THEN /\ pc' = "filled"
          /\ UNCHANGED <<grid, stack>>
     ELSE /\ stack' = SubSeq(stack, 1, Len(stack) - 1)
          /\ pc' = "return"
          /\ grid' = grid
  /\ UNCHANGED <<ret, seed, rng, count, removed, completeSolution, attempts, sessionVars>>

\* fillGridReturn without `grid[row][col] = 0`: the digit whose recursive call
\* has failed is left in the cell.
fillGridReturnNoUndo ==
  /\ pc = "return"
  /\ IF stack = <<>>
     THEN /\ pc' = "filled"
          /\ UNCHANGED <<grid, stack>>
     ELSE LET top == stack[Len(stack)]
          IN  IF ret
              THEN /\ stack' = SubSeq(stack, 1, Len(stack) - 1)
                   /\ pc' = "return"
                   /\ grid' = grid
              ELSE /\ grid' = grid
                   /\ pc' = "numbers"
                   /\ stack' = stack
  /\ UNCHANGED <<ret, seed, rng, count, removed, completeSolution, attempts, sessionVars>>

\* A recursive call has returned to the call on top of the stack:
\* `if (fillGrid(grid)) return true; grid[row][col] = 0;`.  With an empty stack
\* the outermost call has returned to its caller.
fillGridReturn ==
  /\ pc = "return"
  /\ IF stack = <<>>
     THEN /\ pc' = "filled"
          /\ UNCHANGED <<grid, stack>>
     ELSE LET top == stack[Len(stack)]
          IN  IF ret
              THEN /\ stack' = SubSeq(stack, 1, Len(stack) - 1)
                   /\ pc' = "return"
                   /\ grid' = grid
              ELSE /\ grid' = [grid EXCEPT ![top.row][top.col] = 0]
                   /\ pc' = "numbers"
                   /\ stack' = stack
  /\ UNCHANGED <<ret, seed, rng, count, removed, completeSolution, attempts, sessionVars>>

fillGrid == fillGridCall \/ fillGridNumbers \/ fillGridReturn

\* ------------------------------------------------------------------------
\* removeNumbers, one step per iteration of its loop
\* ------------------------------------------------------------------------
\* The Math.random stream of removeNumbers: Math.random() returns
\* x / RandomPeriod, x running through a full-period linear congruential
\* sequence, under which every cell is drawn, and drawn again.
nextRandom(x) == (13 * x + 5) % RandomPeriod

\* Math.floor(Math.random() * n), for the draw x.
randomIndex(x, n) == (n * x) \div RandomPeriod

\* removeNumbers without the test `grid[row][col] !== 0`: a cell that is drawn
\* again is counted again.
removeNumbersStepNoTest ==
  /\ pc = "removeNumbers"
  /\ IF removed < count
     THEN LET row == randomIndex(rng, Size)
              col == randomIndex(nextRandom(rng), Size)
          IN  /\ grid' = [grid EXCEPT ![row][col] = 0]
              /\ removed' = removed + 1
              /\ rng' = nextRandom(nextRandom(rng))
              /\ pc' = pc
     ELSE /\ pc' = "carved"
          /\ UNCHANGED <<grid, removed, rng>>
  /\ UNCHANGED <<stack, ret, seed, count, completeSolution, attempts, sessionVars>>

\* removeNumbers with the draw of row and col made once, before the loop.
removeNumbersStepHoisted ==
  /\ pc = "removeNumbers"
  /\ IF removed < count
     THEN LET row == randomIndex(rng, Size)
              col == randomIndex(nextRandom(rng), Size)
          IN  /\ IF grid[row][col] # 0
                 THEN /\ grid' = [grid EXCEPT ![row][col] = 0]
                      /\ removed' = removed + 1
                 ELSE UNCHANGED <<grid, removed>>
              /\ rng' = rng
              /\ pc' = pc
     ELSE /\ pc' = "carved"
          /\ UNCHANGED <<grid, removed, rng>>
  /\ UNCHANGED <<stack, ret, seed, count, completeSolution, attempts, sessionVars>>

removeNumbersStep ==
  /\ pc = "removeNumbers"
  /\ IF removed < count
     THEN LET row == randomIndex(rng, Size)
              col == randomIndex(nextRandom(rng), Size)
          IN  /\ IF grid[row][col] # 0
                 THEN /\ grid' = [grid EXCEPT ![row][col] = 0]
                      /\ removed' = removed + 1
                 ELSE UNCHANGED <<grid, removed>>
              /\ rng' = nextRandom(nextRandom(rng))
              /\ pc' = pc
     ELSE /\ pc' = "carved"
          /\ UNCHANGED <<grid, removed, rng>>
  /\ UNCHANGED <<stack, ret, seed, count, completeSolution, attempts, sessionVars>>

\* ------------------------------------------------------------------------
\* The generator's functions run on their own
\* ------------------------------------------------------------------------
NoSession ==
  /\ Constructed
  /\ gameHistory = <<>>
  /\ localStorage = [kind |-> "absent", value |-> <<>>]
  /\ uncaught = "none"

\* fillGrid on the all-empty grid of generateSudoku.
InitFill ==
  /\ pc = "fillGrid"
  /\ grid = EmptyGrid
  /\ stack = <<>>
  /\ ret = FALSE
  /\ seed \in 0 .. MaxSeed
  /\ rng = 0
  /\ count = 0
  /\ removed = 0
  /\ completeSolution = EmptyGrid
  /\ attempts = 0
  /\ NoSession

NextFill == fillGrid

SpecFill == InitFill /\ [][NextFill]_vars

SpecFillFair == SpecFill /\ WF_vars(NextFill)

\* A complete valid grid: the rows of the base pattern, shifted.
PatternGrid(shift) ==
  [r \in Idx |-> [c \in Idx |-> ((Box * (r % Box) + (r \div Box) + c + shift) % Size) + 1]]

CarveCounts == {difficultySettings[d] : d \in Difficulties} \cup {0, 1, Size * Size}

\* removeNumbers on a complete grid.
InitCarve ==
  /\ pc = "removeNumbers"
  /\ \E shift \in 0 .. MaxShift : /\ grid = PatternGrid(shift)
                                  /\ completeSolution = PatternGrid(shift)
  /\ stack = <<>>
  /\ ret = TRUE
  /\ seed = 0
  /\ rng \in 0 .. MaxCarveSeed
  /\ count \in CarveCounts
  /\ removed = 0
  /\ attempts = 0
  /\ NoSession

NextCarve == removeNumbersStep

SpecCarve == InitCarve /\ [][NextCarve]_vars

\* fillGrid on a partial grid: a complete grid with some cells of a pool
\* blanked, and possibly another digit planted in one of them, the cells that
\* are filled being free of conflicts.  completeSolution keeps the grid as
\* passed.
PartialPool == {0, 1, 2, 3, 4, 9, 10, 12, 13, 27, 28}

Blanked(B) ==
  [r \in Idx |-> [c \in Idx |-> IF Size * r + c \in B THEN 0 ELSE PatternGrid(0)[r][c]]]

conflictFree(g) ==
  \A k \in Cells :
    g[CellRow(k)][CellCol(k)] # 0 =>
      isValid([g EXCEPT ![CellRow(k)][CellCol(k)] = 0], CellRow(k), CellCol(k),
              g[CellRow(k)][CellCol(k)])

PartialGrids ==
  LET blanks == {B \in SUBSET PartialPool : Cardinality(B) <= MaxBlanks}
      planted == UNION {{[Blanked(B) EXCEPT ![CellRow(k)][CellCol(k)] = d] :
                           k \in B, d \in Digits} : B \in blanks}
  IN  {g \in {Blanked(B) : B \in blanks} \cup planted : conflictFree(g)}

InitPartial ==
  /\ pc = "fillGrid"
  /\ grid \in PartialGrids
  /\ completeSolution = grid
  /\ stack = <<>>
  /\ ret = FALSE
  /\ seed \in 0 .. MaxPartialSeed
  /\ rng = 0
  /\ count = 0
  /\ removed = 0
  /\ attempts = 0
  /\ NoSession

NextPartial == fillGrid

SpecPartial == InitPartial /\ [][NextPartial]_vars

\* removeNumbers on a grid that is complete or has the cells of the pool
\* blanked, with a count that does not exceed the number of its filled cells.
\* The loop runs on: nothing else is scheduled while it does, and the stream
\* of draws comes by every cell.
InitRemove ==
  /\ pc = "removeNumbers"
  /\ grid \in {PatternGrid(shift) : shift \in 0 .. MaxShift} \cup {Blanked(PartialPool)}
  /\ completeSolution = grid
  /\ stack = <<>>
  /\ ret = TRUE
  /\ seed = 0
  /\ rng \in 0 .. MaxCarveSeed
  /\ count \in {n \in CarveCounts \cup {NonZeroCount(grid)} : n <= NonZeroCount(grid)}
  /\ removed = 0
  /\ attempts = 0
  /\ NoSession

NextRemove == removeNumbersStep

SpecRemove == InitRemove /\ [][NextRemove]_vars /\ WF_vars(NextRemove)

\* ------------------------------------------------------------------------
\* History and fingerprint
\* ------------------------------------------------------------------------
DigitChars == <<"0", "1", "2", "3", "4", "5", "6", "7", "8", "9">>

\* The decimal text of a number 0 .. 99, as join("") writes it.
decimal(n) ==
  IF n < 10 THEN <<DigitChars[n + 1]>>
  ELSE <<DigitChars[(n \div 10) + 1], DigitChars[(n % 10) + 1]>>

\* A text that tells only which cells of the row are blank.
joinRowBlanks(row) ==
  [i \in 1 .. Size |-> IF row[i - 1] = 0 THEN "0" ELSE "1"]

\* row.join("")
joinRow(row) ==
  decimal(row[0]) \o decimal(row[1]) \o decimal(row[2]) \o decimal(row[3])
    \o decimal(row[4]) \o decimal(row[5]) \o decimal(row[6]) \o decimal(row[7])
    \o decimal(row[8])

\* hashPuzzle: the rows' texts, joined; a string is the sequence of its characters.
hashPuzzle(puzzle) ==
  joinRow(puzzle[0]) \o joinRow(puzzle[1]) \o joinRow(puzzle[2]) \o joinRow(puzzle[3])
    \o joinRow(puzzle[4]) \o joinRow(puzzle[5]) \o joinRow(puzzle[6])
    \o joinRow(puzzle[7]) \o joinRow(puzzle[8])

isPuzzleUsed(hash) == \E n \in 1 .. Len(gameHistory) : gameHistory[n].puzzleHash = hash

\* loadHistory: the history a stored item yields.  The item is absent
\* (getItem returns null), or the JSON text of a list of entries, or a text
\* JSON.parse rejects; in the last case gameHistory keeps its initial [].
loadHistory(item) == IF item.kind = "json" THEN item.value ELSE <<>>

\* What loadHistory throws: JSON.parse throws a SyntaxError on a text that is
\* not JSON, and nothing catches it.
loadHistoryThrows(item) == IF item.kind = "corrupt" THEN "SyntaxError" ELSE "none"

\* The list after unshift, without the slice.
savedHistoryUncapped(entry) == <<entry>> \o gameHistory

\* saveHistory: the list after unshift and slice.
savedHistory(entry) ==
  LET unshifted == <<entry>> \o gameHistory
  IN  IF Len(unshifted) > HistoryCap THEN SubSeq(unshifted, 1, HistoryCap) ELSE unshifted

saveHistory(entry) ==
  /\ gameHistory' = savedHistory(entry)
  /\ localStorage' = [kind |-> "json", value |-> savedHistory(entry)]
  /\ uncaught' = uncaught

\* ------------------------------------------------------------------------
\* The timer
\* ------------------------------------------------------------------------
\* setInterval: the id of the interval it creates, given the ids alive.
newInterval(alive) ==
  CHOOSE id \in (1 .. MaxTimers) \ alive : \A other \in (1 .. MaxTimers) \ alive : id <= other

\* timerInterval = setInterval(() => { elapsedTime.value++; }, 1000)
setTimer ==
  /\ (1 .. MaxTimers) \ intervals # {}
  /\ timerInterval' = newInterval(intervals)
  /\ intervals' = intervals \cup {newInterval(intervals)}

\* startTimer
startTimer ==
  LET alive == IF timerInterval # NULL THEN intervals \ {timerInterval} ELSE intervals
  IN  /\ (1 .. MaxTimers) \ alive # {}
      /\ elapsedTime' = 0
      /\ timerInterval' = newInterval(alive)
      /\ intervals' = alive \cup {newInterval(alive)}

\* if (timerInterval) { clearInterval(timerInterval); timerInterval = null; }
clearTimer ==
  IF timerInterval # NULL
  THEN /\ intervals' = intervals \ {timerInterval}
       /\ timerInterval' = NULL
  ELSE UNCHANGED <<timerInterval, intervals>>

\* The callback of the interval id: elapsedTime.value++
Tick(id) ==
  /\ pc = "idle"
  /\ id \in intervals
  /\ elapsedTime < MaxTime
  /\ elapsedTime' = elapsedTime + 1
  /\ UNCHANGED <<genVars, boardVars, modalVars, timerInterval, intervals, historyVars>>

\* ------------------------------------------------------------------------
\* Starting a game: startGame, initBoard, generateSudoku, startTimer
\* ------------------------------------------------------------------------
SelectDifficulty(d) ==
  /\ pc = "idle"
  /\ showModal
  /\ selectedDifficulty' = d
  /\ UNCHANGED <<genVars, boardVars, timerVars, historyVars, showModal, showGiveUpModal,
                 showVictoryModal, showHistoryModal, hasGivenUp, gameStarted, isPaused>>

\* The Math.random stream of a generation attempt, and of the one after it.
streamOf(s) == (7 * s) % RandomPeriod

nextSeed(s) == (s + 1) % (MaxGameSeed + 1)

\* startGame without the line that sets hintsRemaining.
startGameNoBudget(s) ==
  /\ pc = "idle"
  /\ showModal
  /\ showModal' = FALSE
  /\ gameStarted' = TRUE
  /\ hintsRemaining' = hintsRemaining
  /\ attempts' = 0
  /\ grid' = EmptyGrid
  /\ stack' = <<>>
  /\ seed' = s
  /\ pc' = "fillGrid"
  /\ UNCHANGED <<ret, rng, count, removed, completeSolution, board, solution,
                 currentPuzzleHash, timerVars, historyVars, showGiveUpModal,
                 showVictoryModal, showHistoryModal, hasGivenUp, selectedDifficulty,
                 isPaused>>

\* startGame up to the first call of fillGrid, in generateSudoku.
startGame(s) ==
  /\ pc = "idle"
  /\ showModal
  /\ showModal' = FALSE
  /\ gameStarted' = TRUE
  /\ hintsRemaining' = hintsSettings[selectedDifficulty]
  /\ attempts' = 0
  /\ grid' = EmptyGrid
  /\ stack' = <<>>
  /\ seed' = s
  /\ pc' = "fillGrid"
  /\ UNCHANGED <<ret, rng, count, removed, completeSolution, board, solution,
                 currentPuzzleHash, timerVars, historyVars, showGiveUpModal,
                 showVictoryModal, showHistoryModal, hasGivenUp, selectedDifficulty,
                 isPaused>>

\* generateSudoku after fillGrid has returned: the copy of the grid, and the
\* call of removeNumbers.
generateSudoku ==
  /\ pc = "filled"
  /\ completeSolution' = grid
  /\ count' = difficultySettings[selectedDifficulty]
  /\ removed' = 0
  /\ rng' = streamOf(seed)
  /\ pc' = "removeNumbers"
  /\ UNCHANGED <<grid, stack, ret, seed, attempts, sessionVars>>

\* initBoard without its loop: the first puzzle generated is accepted.
initBoardOnce ==
  /\ pc = "carved"
  /\ attempts' = attempts + 1
  /\ currentPuzzleHash' = hashPuzzle(grid)
  /\ solution' = completeSolution
  /\ board' = [r \in Idx |-> [c \in Idx |->
                 [value |-> grid[r][c], isFixed |-> grid[r][c] # 0]]]
  /\ startTimer
  /\ pc' = "idle"
  /\ UNCHANGED <<grid, stack, ret, seed, rng, count, removed, completeSolution,
                 hintsRemaining, modalVars, historyVars>>

\* initBoard on a generateSudoku that returns its grid as the solution too:
\* the solution is the grid that removeNumbers has carved.
initBoardAlias ==
  /\ pc = "carved"
  /\ attempts' = attempts + 1
  /\ LET hash == hashPuzzle(grid)
     IN  IF isPuzzleUsed(hash) /\ attempts + 1 < maxAttempts
         THEN /\ grid' = EmptyGrid
              /\ stack' = <<>>
              /\ seed' = nextSeed(seed)
              /\ pc' = "fillGrid"
              /\ UNCHANGED <<ret, rng, count, removed, completeSolution, sessionVars>>
         ELSE /\ currentPuzzleHash' = hash
              /\ solution' = grid
              /\ board' = [r \in Idx |-> [c \in Idx |->
                             [value |-> grid[r][c], isFixed |-> grid[r][c] # 0]]]
              /\ startTimer
              /\ pc' = "idle"
              /\ UNCHANGED <<grid, stack, ret, seed, rng, count, removed, completeSolution,
                             hintsRemaining, modalVars, historyVars>>

\* initBoard with the test of isFixed inverted: the empty cells are the fixed
\* ones.
initBoardInverted ==
  /\ pc = "carved"
  /\ attempts' = attempts + 1
  /\ LET hash == hashPuzzle(grid)
     IN  IF isPuzzleUsed(hash) /\ attempts + 1 < maxAttempts
         THEN /\ grid' = EmptyGrid
              /\ stack' = <<>>
              /\ seed' = nextSeed(seed)
              /\ pc' = "fillGrid"
              /\ UNCHANGED <<ret, rng, count, removed, completeSolution, sessionVars>>
         ELSE /\ currentPuzzleHash' = hash
              /\ solution' = completeSolution
              /\ board' = [r \in Idx |-> [c \in Idx |->
                             [value |-> grid[r][c], isFixed |-> grid[r][c] = 0]]]
              /\ startTimer
              /\ pc' = "idle"
              /\ UNCHANGED <<grid, stack, ret, seed, rng, count, removed, completeSolution,
                             hintsRemaining, modalVars, historyVars>>

\* initBoard after generateSudoku has returned: the test of the do-while loop,
\* then either the next attempt or the rest of initBoard and startTimer.
initBoard ==
  /\ pc = "carved"
  /\ attempts' = attempts + 1
  /\ LET hash == hashPuzzle(grid)
     IN  IF isPuzzleUsed(hash) /\ attempts + 1 < maxAttempts
         THEN /\ grid' = EmptyGrid
              /\ stack' = <<>>
              /\ seed' = nextSeed(seed)
              /\ pc' = "fillGrid"
              /\ UNCHANGED <<ret, rng, count, removed, completeSolution, sessionVars>>
         ELSE /\ currentPuzzleHash' = hash
              /\ solution' = completeSolution
              /\ board' = [r \in Idx |-> [c \in Idx |->
                             [value |-> grid[r][c], isFixed |-> grid[r][c] # 0]]]
              /\ startTimer
              /\ pc' = "idle"
              /\ UNCHANGED <<grid, stack, ret, seed, rng, count, removed, completeSolution,
                             hintsRemaining, modalVars, historyVars>>

\* ------------------------------------------------------------------------
\* Playing: updateCell, checkVictory, useHint
\* ------------------------------------------------------------------------
\* What the input event carries: the text of the field, as parseInt reads it.
NaN == [nan |-> TRUE, num |-> 0]

Typed(n) == [nan |-> FALSE, num |-> n]

\* parseInt(target.value) || 0
parseIntOrZero(text) == IF text.nan THEN 0 ELSE text.num

\* checkVictory with its first scan only: a board with no empty cell counts
\* as solved.
boardFull(b) == \A row \in Idx : \A col \in Idx : b[row][col].value # 0

\* The two scans of checkVictory over a board: no cell is 0, and no cell
\* differs from the solution.
boardComplete(b) ==
  /\ \A row \in Idx : \A col \in Idx : b[row][col].value # 0
  /\ \A row \in Idx : \A col \in Idx : b[row][col].value = solution[row][col]

\* The entry with the hints that remain recorded as the hints used.
victoryEntryRemaining(now) ==
  [id |-> now,
   difficulty |-> selectedDifficulty,
   time |-> elapsedTime,
   hintsUsed |-> hintsRemaining,
   date |-> now,
   puzzleHash |-> currentPuzzleHash]

\* The entry checkVictory builds, Date.now() being now.
victoryEntry(now) ==
  [id |-> now,
   difficulty |-> selectedDifficulty,
   time |-> elapsedTime,
   hintsUsed |-> hintsSettings[selectedDifficulty] - hintsRemaining,
   date |-> now,
   puzzleHash |-> currentPuzzleHash]

\* checkVictory clearing the timer before its scans.
checkVictoryEager(b, now) ==
  IF boardComplete(b)
  THEN /\ showVictoryModal' = TRUE
       /\ clearTimer
       /\ saveHistory(victoryEntry(now))
  ELSE /\ clearTimer
       /\ UNCHANGED <<showVictoryModal, historyVars>>

\* checkVictory, on the board updateCell has just written.
checkVictory(b, now) ==
  IF boardComplete(b)
  THEN /\ showVictoryModal' = TRUE
       /\ clearTimer
       /\ saveHistory(victoryEntry(now))
  ELSE UNCHANGED <<showVictoryModal, timerInterval, intervals, historyVars>>

\* updateCell marking the cell it writes as fixed.
updateCellFixing(row, col, text, now) ==
  /\ pc = "idle"
  /\ LET value == parseIntOrZero(text)
     IN  IF board # <<>> /\ ~board[row][col].isFixed /\ value >= 0 /\ value <= 9
         THEN /\ board' = [board EXCEPT ![row][col] = [value |-> value, isFixed |-> TRUE]]
              /\ checkVictory(board', now)
         ELSE UNCHANGED <<board, showVictoryModal, timerInterval, intervals, historyVars>>
  /\ UNCHANGED <<genVars, solution, hintsRemaining, currentPuzzleHash, elapsedTime,
                 showModal, showGiveUpModal, showHistoryModal, hasGivenUp,
                 selectedDifficulty, gameStarted, isPaused>>

updateCell(row, col, text, now) ==
  /\ pc = "idle"
  /\ LET value == parseIntOrZero(text)
     IN  IF board # <<>> /\ ~board[row][col].isFixed /\ value >= 0 /\ value <= 9
         THEN /\ board' = [board EXCEPT ![row][col].value = value]
              /\ checkVictory(board', now)
         ELSE UNCHANGED <<board, showVictoryModal, timerInterval, intervals, historyVars>>
  /\ UNCHANGED <<genVars, solution, hintsRemaining, currentPuzzleHash, elapsedTime,
                 showModal, showGiveUpModal, showHistoryModal, hasGivenUp,
                 selectedDifficulty, gameStarted, isPaused>>

\* The cells useHint collects: the cells that are empty and not fixed.
emptyCells(b) ==
  {k \in Cells : ~b[CellRow(k)][CellCol(k)].isFixed /\ b[CellRow(k)][CellCol(k)].value = 0}

\* emptyCells[index], the cells being collected in row-major order.
emptyCellAt(b, index) ==
  CHOOSE k \in emptyCells(b) : Cardinality({m \in emptyCells(b) : m < k}) = index

\* useHint without its first line, `if (hintsRemaining.value <= 0) return`.
useHintNoBudget(x) ==
  /\ pc = "idle"
  /\ IF emptyCells(board) = {}
     THEN UNCHANGED <<board, hintsRemaining>>
     ELSE LET cell == emptyCellAt(board, randomIndex(x, Cardinality(emptyCells(board))))
              row == CellRow(cell)
              col == CellCol(cell)
          IN  /\ board' = [board EXCEPT ![row][col] =
                             [value |-> solution[row][col], isFixed |-> TRUE]]
              /\ hintsRemaining' = hintsRemaining - 1
  /\ UNCHANGED <<genVars, solution, currentPuzzleHash, modalVars, timerVars, historyVars>>

\* useHint with a call of checkVictory at its end.
useHintChecking(x) ==
  /\ pc = "idle"
  /\ IF hintsRemaining <= 0 \/ emptyCells(board) = {}
     THEN UNCHANGED <<board, hintsRemaining, showVictoryModal, timerInterval, intervals,
                      historyVars>>
     ELSE LET cell == emptyCellAt(board, randomIndex(x, Cardinality(emptyCells(board))))
              row == CellRow(cell)
              col == CellCol(cell)
          IN  /\ board' = [board EXCEPT ![row][col] =
                             [value |-> solution[row][col], isFixed |-> TRUE]]
              /\ hintsRemaining' = hintsRemaining - 1
              /\ checkVictory(board', 0)
  /\ UNCHANGED <<genVars, solution, currentPuzzleHash, elapsedTime, showModal,
                 showGiveUpModal, showHistoryModal, hasGivenUp, selectedDifficulty,
                 gameStarted, isPaused>>

\* useHint without `targetCell.isFixed = true`.
useHintUnfixed(x) ==
  /\ pc = "idle"
  /\ IF hintsRemaining <= 0 \/ emptyCells(board) = {}
     THEN UNCHANGED <<board, hintsRemaining>>
     ELSE LET cell == emptyCellAt(board, randomIndex(x, Cardinality(emptyCells(board))))
              row == CellRow(cell)
              col == CellCol(cell)
          IN  /\ board' = [board EXCEPT ![row][col] =
                             [value |-> solution[row][col], isFixed |-> FALSE]]
              /\ hintsRemaining' = hintsRemaining - 1
  /\ UNCHANGED <<genVars, solution, currentPuzzleHash, modalVars, timerVars, historyVars>>

\* useHint taking a hint from the budget before it looks for an empty cell.
useHintCharging(x) ==
  /\ pc = "idle"
  /\ IF hintsRemaining <= 0
     THEN UNCHANGED <<board, hintsRemaining>>
     ELSE IF emptyCells(board) = {}
     THEN UNCHANGED board /\ hintsRemaining' = hintsRemaining - 1
     ELSE LET cell == emptyCellAt(board, randomIndex(x, Cardinality(emptyCells(board))))
              row == CellRow(cell)
              col == CellCol(cell)
          IN  /\ board' = [board EXCEPT ![row][col] =
                             [value |-> solution[row][col], isFixed |-> TRUE]]
              /\ hintsRemaining' = hintsRemaining - 1
  /\ UNCHANGED <<genVars, solution, currentPuzzleHash, modalVars, timerVars, historyVars>>

\* useHint, x being the draw of Math.random.
useHint(x) ==
  /\ pc = "idle"
  /\ IF hintsRemaining <= 0 \/ emptyCells(board) = {}
     THEN UNCHANGED <<board, hintsRemaining>>
     ELSE LET cell == emptyCellAt(board, randomIndex(x, Cardinality(emptyCells(board))))
              row == CellRow(cell)
              col == CellCol(cell)
          IN  /\ board' = [board EXCEPT ![row][col] =
                             [value |-> solution[row][col], isFixed |-> TRUE]]
              /\ hintsRemaining' = hintsRemaining - 1
  /\ UNCHANGED <<genVars, solution, currentPuzzleHash, modalVars, timerVars, historyVars>>

\* ------------------------------------------------------------------------
\* Pause, history view, give-up, new game
\* ------------------------------------------------------------------------
togglePause ==
  /\ pc = "idle"
  /\ isPaused' = ~isPaused
  /\ IF isPaused' THEN clearTimer ELSE setTimer
  /\ UNCHANGED <<genVars, boardVars, historyVars, elapsedTime, showModal, showGiveUpModal,
                 showVictoryModal, showHistoryModal, hasGivenUp, selectedDifficulty,
                 gameStarted>>

toggleHistory ==
  /\ pc = "idle"
  /\ showHistoryModal' = ~showHistoryModal
  /\ IF showHistoryModal' /\ ~isPaused /\ gameStarted THEN clearTimer
     ELSE IF ~showHistoryModal' /\ ~isPaused /\ gameStarted THEN setTimer
     ELSE UNCHANGED <<timerInterval, intervals>>
  /\ UNCHANGED <<genVars, boardVars, historyVars, elapsedTime, showModal, showGiveUpModal,
                 showVictoryModal, hasGivenUp, selectedDifficulty, gameStarted, isPaused>>

askGiveUp ==
  /\ pc = "idle"
  /\ showGiveUpModal' = TRUE
  /\ clearTimer
  /\ UNCHANGED <<genVars, boardVars, historyVars, elapsedTime, showModal, showVictoryModal,
                 showHistoryModal, hasGivenUp, selectedDifficulty, gameStarted, isPaused>>

cancelGiveUp ==
  /\ pc = "idle"
  /\ showGiveUpModal' = FALSE
  /\ IF ~isPaused THEN setTimer ELSE UNCHANGED <<timerInterval, intervals>>
  /\ UNCHANGED <<genVars, boardVars, historyVars, elapsedTime, showModal, showVictoryModal,
                 showHistoryModal, hasGivenUp, selectedDifficulty, gameStarted, isPaused>>

\* confirmGiveUp revealing the values without `cell.isFixed = true`.
confirmGiveUpNoFix ==
  /\ pc = "idle"
  /\ showGiveUpModal' = FALSE
  /\ hasGivenUp' = TRUE
  /\ board' = [row \in Idx |-> [col \in Idx |->
                 [value |-> solution[row][col], isFixed |-> board[row][col].isFixed]]]
  /\ UNCHANGED <<genVars, solution, hintsRemaining, currentPuzzleHash, timerVars,
                 historyVars, showModal, showVictoryModal, showHistoryModal,
                 selectedDifficulty, gameStarted, isPaused>>

confirmGiveUp ==
  /\ pc = "idle"
  /\ showGiveUpModal' = FALSE
  /\ hasGivenUp' = TRUE
  /\ board' = [row \in Idx |-> [col \in Idx |->
                 [value |-> solution[row][col], isFixed |-> TRUE]]]
  /\ UNCHANGED <<genVars, solution, hintsRemaining, currentPuzzleHash, timerVars,
                 historyVars, showModal, showVictoryModal, showHistoryModal,
                 selectedDifficulty, gameStarted, isPaused>>

\* The state of a freshly loaded page once onMounted has run loadHistory.
Loaded(item) ==
  /\ pc = "idle"
  /\ grid = EmptyGrid
  /\ stack = <<>>
  /\ ret = FALSE
  /\ seed = 0
  /\ rng = 0
  /\ count = 0
  /\ removed = 0
  /\ completeSolution = EmptyGrid
  /\ attempts = 0
  /\ Constructed
  /\ localStorage = item
  /\ uncaught = loadHistoryThrows(item)
  /\ gameHistory = loadHistory(item)

\* newGame: window.location.reload().  The page starts over; only the stored
\* item survives.
newGame ==
  /\ pc = "idle"
  /\ pc' = "idle"
  /\ grid' = EmptyGrid
  /\ stack' = <<>>
  /\ ret' = FALSE
  /\ seed' = 0
  /\ rng' = 0
  /\ count' = 0
  /\ removed' = 0
  /\ completeSolution' = EmptyGrid
  /\ attempts' = 0
  /\ board' = <<>>
  /\ solution' = <<>>
  /\ showModal' = TRUE
  /\ showGiveUpModal' = FALSE
  /\ showVictoryModal' = FALSE
  /\ showHistoryModal' = FALSE
  /\ hasGivenUp' = FALSE
  /\ selectedDifficulty' = "medio"
  /\ gameStarted' = FALSE
  /\ isPaused' = FALSE
  /\ elapsedTime' = 0
  /\ hintsRemaining' = 0
  /\ currentPuzzleHash' = <<>>
  /\ timerInterval' = NULL
  /\ intervals' = {}
  /\ localStorage' = localStorage
  /\ gameHistory' = loadHistory(localStorage)
  /\ uncaught' = loadHistoryThrows(localStorage)

\* ------------------------------------------------------------------------
\* The player and the environment
\* ------------------------------------------------------------------------
\* The stored item a page load may find.
StoredItems == {[kind |-> "absent", value |-> <<>>]}

\* The player turns to the buttons late in the game.
LateGame == pc = "idle" /\ gameStarted /\ Cardinality(emptyCells(board)) <= MaxOpen

\* What the player types, and where: the empty cells are filled in row-major
\* order, with the right digit or a wrong one, a wrong entry being corrected
\* before the next cell is filled; the last entry may be retyped, and late in
\* the game cleared; a number out of range is typed in these cells too.  The
\* first given cell stands for the cells that are fixed.
PlayerInputs ==
  LET entered == {k \in Cells : ~board[CellRow(k)][CellCol(k)].isFixed
                                  /\ board[CellRow(k)][CellCol(k)].value # 0}
      given == {k \in Cells : board[CellRow(k)][CellCol(k)].isFixed}
      allRight == \A k \in entered :
                    board[CellRow(k)][CellCol(k)].value = solution[CellRow(k)][CellCol(k)]
      least(S) == {k \in S : \A m \in S : k <= m}
      greatest(S) == {k \in S : \A m \in S : k >= m}
      right(k) == solution[CellRow(k)][CellCol(k)]
      wrong(k) == (right(k) % Size) + 1
      digits(k) == {Typed(right(k)), Typed(wrong(k)), Typed(-1), Typed(Size + 1)}
      blanks == IF Cardinality(emptyCells(board)) < MaxOpen THEN {NaN, Typed(0)} ELSE {}
  IN  UNION {{<<k, text>> : text \in digits(k)} :
               k \in IF allRight THEN least(emptyCells(board)) ELSE {}}
        \cup UNION {{<<k, text>> : text \in digits(k) \cup blanks} : k \in greatest(entered)}
        \cup {<<k, Typed(wrong(k))>> : k \in least(given)}

\* The draws of Math.random in useHint: the greatest, and late in the game
\* the least too.  The player takes MaxHints hints, and presses the button
\* when no hint is left.
HintDraws ==
  IF pc = "idle" /\ gameStarted
       /\ (hintsRemaining = 0 \/ hintsSettings[selectedDifficulty] - hintsRemaining < MaxHints)
  THEN {RandomPeriod - 1} \cup (IF LateGame THEN {0} ELSE {})
  ELSE {}

\* The events of the page: the input of a cell, the buttons, the intervals.
\* A control fires while the template renders it: the grid while the game is
\* started and not paused, the buttons of the header while the game is
\* started, the give-up button until the player has given up, the buttons of
\* a modal while the modal is shown.  The modals are overlays and hold no
\* focus: the controls behind them stay in reach of the keyboard.
inputCell ==
  /\ pc = "idle"
  /\ gameStarted
  /\ ~isPaused
  /\ Cardinality({n \in 1 .. Len(gameHistory) : gameHistory[n].id >= 0}) < MaxHistory
  /\ \E input \in PlayerInputs : \E now \in 0 .. MaxNow :
       updateCell(CellRow(input[1]), CellCol(input[1]), input[2], now)

clickDifficulty == \E d \in Difficulties : SelectDifficulty(d)

clickStart == \E s \in 0 .. MaxGameSeed : startGame(s)

clickHint == gameStarted /\ \E x \in HintDraws : useHint(x)

clickPause == gameStarted /\ LateGame /\ togglePause

clickHistory == gameStarted /\ LateGame /\ toggleHistory

clickGiveUp == gameStarted /\ ~hasGivenUp /\ LateGame /\ askGiveUp

clickCancelGiveUp == showGiveUpModal /\ cancelGiveUp

clickConfirmGiveUp == showGiveUpModal /\ confirmGiveUp

clickNewGame ==
  /\ showVictoryModal \/ (gameStarted /\ hasGivenUp)
  /\ Len(gameHistory) <= MaxReloadHistory
  /\ newGame

interval == \E id \in 1 .. MaxTimers : Tick(id)

Init == \E item \in StoredItems : Loaded(item)

Next ==
  \/ clickDifficulty
  \/ clickStart
  \/ fillGrid
  \/ generateSudoku
  \/ removeNumbersStep
  \/ initBoard
  \/ inputCell
  \/ clickHint
  \/ clickPause
  \/ clickHistory
  \/ clickGiveUp
  \/ clickCancelGiveUp
  \/ clickConfirmGiveUp
  \/ clickNewGame
  \/ interval

Spec == Init /\ [][Next]_vars

\* ------------------------------------------------------------------------
\* Starting a game on a page whose stored history holds puzzles already played
\* ------------------------------------------------------------------------
\* The cells of the tutorial puzzles the generator yields under the streams 0
\* and 1, row by row.
UsedPuzzle0 ==
  <<0, 2, 3, 4, 5, 6, 0, 8, 9, 4, 5, 6, 7, 8, 9, 1, 2, 3, 7, 8, 0, 1, 2, 3,
    0, 5, 0, 6, 0, 5, 9, 0, 8, 3, 7, 2, 0, 7, 4, 5, 3, 1, 6, 9, 8, 3, 9, 8,
    6, 7, 2, 5, 4, 1, 5, 6, 1, 8, 9, 4, 2, 3, 7, 8, 3, 7, 2, 1, 5, 9, 6, 4,
    0, 4, 2, 3, 6, 0, 8, 1, 5>>

UsedPuzzle1 ==
  <<2, 3, 4, 0, 6, 7, 0, 9, 1, 0, 6, 7, 0, 9, 1, 2, 3, 4, 8, 9, 1, 2, 3, 4,
    5, 6, 0, 7, 2, 6, 1, 5, 9, 4, 8, 3, 0, 8, 5, 6, 4, 0, 7, 0, 9, 4, 1, 9,
    7, 8, 3, 6, 5, 2, 6, 7, 0, 9, 1, 5, 3, 4, 8, 9, 4, 8, 3, 2, 6, 1, 7, 5,
    1, 5, 3, 4, 7, 0, 9, 2, 6>>

\* The entry an earlier session stored for a puzzle it won.
storedEntry(cells) ==
  [id |-> -1,
   difficulty |-> "tutorial",
   time |-> 0,
   hintsUsed |-> 0,
   date |-> -1,
   puzzleHash |-> [i \in 1 .. Size * Size |-> DigitChars[cells[i] + 1]]]

\* The stored item the page finds: nothing, a text that is not JSON, the
\* first puzzle, or both puzzles.
RetryItems ==
  {[kind |-> "absent", value |-> <<>>],
   [kind |-> "corrupt", value |-> <<>>],
   [kind |-> "json", value |-> <<storedEntry(UsedPuzzle0)>>],
   [kind |-> "json", value |-> <<storedEntry(UsedPuzzle1), storedEntry(UsedPuzzle0)>>]}

InitRetry == \E item \in RetryItems : Loaded(item)

NextRetry ==
  \/ clickDifficulty
  \/ clickStart
  \/ fillGrid
  \/ generateSudoku
  \/ removeNumbersStep
  \/ initBoard

SpecRetry == InitRetry /\ [][NextRetry]_vars

\* ------------------------------------------------------------------------
\* hashPuzzle run on its own, on two grids
\* ------------------------------------------------------------------------
\* The grids that differ from a grid in at most one of the given cells, which
\* holds any of 0..9.
Edits(base, cells) ==
  {[base EXCEPT ![CellRow(k)][CellCol(k)] = v] : k \in cells, v \in 0 .. 9}

\* hashPuzzle is about to be called on grid; completeSolution is a second grid.
InitHash ==
  /\ pc = "hashPuzzle"
  /\ grid \in Edits(PatternGrid(0), Cells)
  /\ completeSolution \in Edits(PatternGrid(0), 0 .. MaxHashCell)
  /\ stack = <<>>
  /\ ret = FALSE
  /\ seed = 0
  /\ rng = 0
  /\ count = 0
  /\ removed = 0
  /\ attempts = 0
  /\ NoSession

\* hash = hashPuzzle(puzzle), as in initBoard.
hashPuzzleCall ==
  /\ pc = "hashPuzzle"
  /\ currentPuzzleHash' = hashPuzzle(grid)
  /\ pc' = "hashed"
  /\ UNCHANGED <<grid, stack, ret, seed, rng, count, removed, completeSolution, attempts,
                 board, solution, hintsRemaining, modalVars, timerVars, historyVars>>

NextHash == hashPuzzleCall

SpecHash == InitHash /\ [][NextHash]_vars

\* ------------------------------------------------------------------------
\* A session on a page whose stored history is nearly full, or full
\* ------------------------------------------------------------------------
\* The list earlier sessions stored after n wins, newest first: the entry at
\* index i is the one of the win n - i + 1, which its time tells.
StoredHistory(n) ==
  [i \in 1 .. n |->
     [id |-> -1,
      difficulty |-> "medio",
      time |-> n - i + 1,
      hintsUsed |-> 0,
      date |-> -1,
      puzzleHash |-> <<>>]]

\* The stored item of a page that has seen 49 wins, or 50.
FullItems == {[kind |-> "json", value |-> StoredHistory(n)] : n \in {HistoryCap - 1, HistoryCap}}

InitHistory == \E item \in FullItems : Loaded(item)

\* One page load: the events of the page but the reload.
NextHistory ==
  \/ clickDifficulty
  \/ clickStart
  \/ fillGrid
  \/ generateSudoku
  \/ removeNumbersStep
  \/ initBoard
  \/ inputCell
  \/ clickHint
  \/ clickPause
  \/ clickHistory
  \/ clickGiveUp
  \/ clickCancelGiveUp
  \/ clickConfirmGiveUp
  \/ interval

SpecHistory == InitHistory /\ [][NextHistory]_vars

\* ------------------------------------------------------------------------
\* Properties of the generator
\* ------------------------------------------------------------------------
\* Every row, every column and every 3x3 block holds each digit exactly once.
validGrid(g) ==
  /\ \A r \in Idx : \A d \in Digits : Cardinality({c \in Idx : g[r][c] = d}) = 1
  /\ \A c \in Idx : \A d \in Digits : Cardinality({r \in Idx : g[r][c] = d}) = 1
  /\ \A br \in 0 .. (Box - 1) : \A bc \in 0 .. (Box - 1) : \A d \in Digits :
       Cardinality({<<i, j>> \in (0 .. (Box - 1)) \X (0 .. (Box - 1)) :
                      g[Box * br + i][Box * bc + j] = d}) = 1

\* C1: the grid fillGrid leaves behind when it has run on the all-empty grid
\* has no cell 0, and each row, each column and each 3x3 block of it holds
\* every digit 1..9 exactly once, under every stream of shuffles.
C1_SolutionValid ==
  pc = "filled" => /\ \A r \in Idx : \A c \in Idx : grid[r][c] # 0
                   /\ validGrid(grid)

\* A run of fillGrid that has ended, under a shuffle that does not start with 1.
C1_Witness == pc = "filled" /\ grid[0][0] # 1 /\ validGrid(grid)

\* C2: fillGrid on the all-empty grid terminates, and what it returns to its
\* caller is true.
C2_FillTerminatesTrue == <>(pc = "filled" /\ ret = TRUE)

\* The outermost call has returned true on a grid with no empty cell.
C2_Witness == pc = "filled" /\ ret = TRUE /\ stack = <<>> /\ FirstEmptyCell(grid) = -1

\* C3: when removeNumbers(grid, count) returns on a complete grid, exactly
\* 81 - count cells are non-zero, and each of them holds the value it held
\* before the call.
C3_RemovesExactlyCount ==
  pc = "carved" =>
    /\ NonZeroCount(grid) = Size * Size - count
    /\ \A r \in Idx : \A c \in Idx : grid[r][c] # 0 => grid[r][c] = completeSolution[r][c]

\* removeNumbers has returned from the call of the expert difficulty.
C3_Witness ==
  /\ pc = "carved"
  /\ count = difficultySettings["expert"]
  /\ NonZeroCount(grid) = 17
  /\ NonZeroCount(completeSolution) = Size * Size

\* ------------------------------------------------------------------------
\* Properties of the session
\* ------------------------------------------------------------------------
\* A step of updateCell on the input of a player.
updateCellStep ==
  /\ pc = "idle"
  /\ gameStarted
  /\ \E input \in PlayerInputs : \E now \in 0 .. MaxNow :
       updateCell(CellRow(input[1]), CellCol(input[1]), input[2], now)

\* A step of updateCell that writes the cell: the cell is not fixed and the
\* value is in 0..9.
acceptedUpdateStep ==
  /\ pc = "idle"
  /\ gameStarted
  /\ \E input \in PlayerInputs : \E now \in 0 .. MaxNow :
       /\ ~board[CellRow(input[1])][CellCol(input[1])].isFixed
       /\ parseIntOrZero(input[2]) \in 0 .. 9
       /\ updateCell(CellRow(input[1]), CellCol(input[1]), input[2], now)

\* A step within a session: the page is not reloaded and no game is started.
sessionStep == pc = "idle" /\ pc' = "idle" /\ gameStarted /\ gameStarted'

\* No cell of the board is 0 and every cell holds the digit of the solution.
solved(b) ==
  \A k \in Cells : /\ b[CellRow(k)][CellCol(k)].value \in Digits
                   /\ b[CellRow(k)][CellCol(k)].value = solution[CellRow(k)][CellCol(k)]

C5_OneEntryPerWin == [][showVictoryModal => gameHistory' = gameHistory]_vars

\* C6: the entry a win appends holds the difficulty the puzzle was carved for,
\* the elapsed time and budget - hintsRemaining of the winning step, a number
\* in 0..budget, and the fingerprint of the puzzle as carved, which is not that
\* of the solved board.
C6_EntryFields ==
  [][(sessionStep /\ gameHistory' # gameHistory) =>
       LET entry == gameHistory'[1]
           budget == hintsSettings[entry.difficulty]
       IN  /\ Len(gameHistory') = Len(gameHistory) + 1
           /\ entry.difficulty = selectedDifficulty
           /\ NonZeroCount(grid) = Size * Size - difficultySettings[entry.difficulty]
           /\ entry.time = elapsedTime
           /\ entry.hintsUsed = budget - hintsRemaining
           /\ entry.hintsUsed \in 0 .. budget
           /\ entry.puzzleHash = hashPuzzle(grid)
           /\ entry.puzzleHash # hashPuzzle([r \in Idx |-> [c \in Idx |-> board'[r][c].value]])]_vars

\* A win after one tick and one hint is in the history.
C6_Witness ==
  /\ pc = "idle"
  /\ showVictoryModal
  /\ Len(gameHistory) = 1
  /\ gameHistory[1].time = 1
  /\ gameHistory[1].hintsUsed = 1
  /\ gameHistory[1].difficulty = "tutorial"

\* C7: at most one interval is alive.
C7_AtMostOneTimer == Cardinality(intervals) <= 1

\* C8: once the victory modal is open or the player has given up, elapsed
\* time does not increase.
C8_NoTimeAfterEnd ==
  [][(showVictoryModal \/ hasGivenUp) => elapsedTime' <= elapsedTime]_vars

\* C9: while the game is paused, elapsed time does not advance.
C9_NoTimeWhilePaused == [][(isPaused /\ isPaused') => elapsedTime' = elapsedTime]_vars

\* A step of useHint.
useHintStep == pc = "idle" /\ gameStarted /\ \E x \in {0, RandomPeriod - 1} : useHint(x)

\* C10: hintsRemaining is never negative; a step of useHint with no hint left
\* or no cell that is empty and not fixed changes neither the board nor
\* hintsRemaining, and any other step of useHint takes exactly 1 from
\* hintsRemaining and changes exactly one cell.
C10_HintBudget ==
  /\ [](hintsRemaining >= 0)
  /\ [][useHintStep =>
          IF hintsRemaining = 0 \/ emptyCells(board) = {}
          THEN board' = board /\ hintsRemaining' = hintsRemaining
          ELSE /\ hintsRemaining' = hintsRemaining - 1
               /\ Cardinality({k \in Cells :
                    board'[CellRow(k)][CellCol(k)] # board[CellRow(k)][CellCol(k)]}) = 1]_vars

\* The one hint of the difficulty dificil has revealed a cell.
C10_Witness ==
  /\ pc = "idle"
  /\ gameStarted
  /\ ~hasGivenUp
  /\ selectedDifficulty = "dificil"
  /\ hintsRemaining = 0
  /\ Cardinality({k \in Cells : board[CellRow(k)][CellCol(k)].isFixed})
       = Size * Size - difficultySettings["dificil"] + 1

\* Every cell of the board holds the digit of the solution and is fixed.
revealed(b) ==
  \A k \in Cells : /\ b[CellRow(k)][CellCol(k)].value = solution[CellRow(k)][CellCol(k)]
                   /\ b[CellRow(k)][CellCol(k)].isFixed

\* C11: the step that gives up leaves every cell equal to the solution and
\* fixed and does not touch the history; from then on the board of the
\* session stays so, no step changes the history and no step opens the
\* victory modal.
C11_GiveUpRevealsNoEntry ==
  /\ [][(sessionStep /\ hasGivenUp' /\ ~hasGivenUp) =>
          (revealed(board') /\ gameHistory' = gameHistory)]_vars
  /\ [][(sessionStep /\ hasGivenUp) =>
          /\ revealed(board')
          /\ gameHistory' = gameHistory
          /\ (showVictoryModal' => showVictoryModal)]_vars

\* A player has given up, and has paused since.
C11_Witness ==
  /\ pc = "idle"
  /\ gameStarted
  /\ hasGivenUp
  /\ isPaused
  /\ ~showVictoryModal
  /\ gameHistory = <<>>
  /\ revealed(board)

\* A step of updateCell the rules of the game do not allow: the number is
\* outside 0..9, or the cell is fixed, or the game is not being played (it is
\* paused, won or given up).
invalidUpdateStep ==
  /\ pc = "idle"
  /\ gameStarted
  /\ \E input \in PlayerInputs : \E now \in 0 .. MaxNow :
       /\ \/ parseIntOrZero(input[2]) \notin 0 .. 9
          \/ board[CellRow(input[1])][CellCol(input[1])].isFixed
          \/ isPaused
          \/ showVictoryModal
          \/ hasGivenUp
       /\ updateCell(CellRow(input[1]), CellCol(input[1]), input[2], now)

\* C12: a step of updateCell with a number outside 0..9, or on a fixed cell,
\* or while the game is paused, won or given up, changes neither the board nor
\* hintsRemaining nor the history nor the state of the session.
C12_InvalidEditNoOp ==
  [][invalidUpdateStep =>
       UNCHANGED <<board, hintsRemaining, gameHistory, showVictoryModal, hasGivenUp,
                   isPaused, gameStarted, timerInterval, intervals>>]_vars

\* The game is being played: started, not paused, not won, not given up.
Playing == pc = "idle" /\ gameStarted /\ ~isPaused /\ ~showVictoryModal /\ ~hasGivenUp

\* C13: while the game is played, a step of updateCell on a cell that is not
\* fixed with a number v in 0..9 sets the value of that cell to v, leaves it
\* not fixed, and leaves every other cell and hintsRemaining unchanged; with
\* v = 0 the cell is left empty and the step opens no victory modal and saves
\* no entry.
C13_ValidEditFrame ==
  [][Playing =>
       \A input \in PlayerInputs : \A now \in 0 .. MaxNow :
         LET row == CellRow(input[1])
             col == CellCol(input[1])
             v == parseIntOrZero(input[2])
         IN  (/\ ~board[row][col].isFixed
              /\ v \in 0 .. 9
              /\ updateCell(row, col, input[2], now)) =>
               /\ board'[row][col] = [value |-> v, isFixed |-> FALSE]
               /\ \A k \in Cells : k # input[1] =>
                    board'[CellRow(k)][CellCol(k)] = board[CellRow(k)][CellCol(k)]
               /\ hintsRemaining' = hintsRemaining
               /\ v = 0 => /\ showVictoryModal' = FALSE
                           /\ gameHistory' = gameHistory]_vars

\* The player has filled the board with one digit wrong in the last cell: the
\* cell holds what was typed, it is not fixed, and the game goes on.
C13_Witness ==
  /\ Playing
  /\ emptyCells(board) = {}
  /\ Cardinality({k \in Cells :
        /\ ~board[CellRow(k)][CellCol(k)].isFixed
        /\ board[CellRow(k)][CellCol(k)].value # solution[CellRow(k)][CellCol(k)]}) = 1

\* C14: checkVictory on a board that is not won (a cell is empty, or the
\* board is full with a cell wrong) has no effect: an updateCell step that
\* leaves such a board leaves the board as written, the isFixed flags,
\* hintsRemaining, the history, the stored item, the timer and the flags of
\* the session unchanged, however often it is repeated.
C14_VictoryCheckNoEffect ==
  [][(pc = "idle" /\ gameStarted) =>
       \A input \in PlayerInputs : \A now \in 0 .. MaxNow :
         LET row == CellRow(input[1])
             col == CellCol(input[1])
             v == parseIntOrZero(input[2])
             written == [board EXCEPT ![row][col].value = v]
         IN  (/\ ~board[row][col].isFixed
              /\ v \in 0 .. 9
              /\ ~solved(written)
              /\ updateCell(row, col, input[2], now)) =>
               /\ board' = written
               /\ UNCHANGED <<hintsRemaining, gameHistory, localStorage, timerInterval,
                              intervals, elapsedTime, modalVars>>]_vars

\* A wrong digit stands in a cell while other cells are still empty: the
\* timer runs, no modal is open, the history is empty.
C14_Witness ==
  /\ Playing
  /\ Cardinality(emptyCells(board)) = 5
  /\ \E k \in Cells :
        /\ ~board[CellRow(k)][CellCol(k)].isFixed
        /\ board[CellRow(k)][CellCol(k)].value \in Digits
        /\ board[CellRow(k)][CellCol(k)].value # solution[CellRow(k)][CellCol(k)]
  /\ timerInterval # NULL
  /\ gameHistory = <<>>

\* The fingerprint of the grid is one of those in the history.
collides == \E n \in 1 .. Len(gameHistory) : gameHistory[n].puzzleHash = hashPuzzle(grid)

\* C15: initBoard makes between 1 and 10 attempts.  After an attempt whose
\* fingerprint is in the history, and which is not the 10th, it generates
\* again; after the first attempt whose fingerprint is not in the history, or
\* after the 10th, it stops and the game starts: the board, the solution and
\* the stored fingerprint are those of that attempt.
C15_RetryPolicy ==
  /\ [](attempts \in 0 .. 10)
  /\ [][pc = "carved" =>
          IF collides /\ attempts + 1 < 10
          THEN /\ pc' = "fillGrid"
               /\ attempts' = attempts + 1
               /\ grid' = EmptyGrid
               /\ UNCHANGED <<board, solution, currentPuzzleHash>>
          ELSE /\ pc' = "idle"
               /\ attempts' = attempts + 1
               /\ attempts' \in 1 .. 10
               /\ gameStarted'
               /\ timerInterval' # NULL
               /\ currentPuzzleHash' = hashPuzzle(grid)
               /\ solution' = completeSolution
               /\ \A k \in Cells :
                    /\ board'[CellRow(k)][CellCol(k)].value = grid[CellRow(k)][CellCol(k)]
                    /\ grid[CellRow(k)][CellCol(k)] \in
                         {0, completeSolution[CellRow(k)][CellCol(k)]}]_vars

\* Ten attempts collided with the history, and the game has started on the
\* tenth puzzle.
C15_Witness ==
  /\ pc = "idle"
  /\ gameStarted
  /\ attempts = 10
  /\ \E n \in 1 .. Len(gameHistory) : gameHistory[n].puzzleHash = currentPuzzleHash
  /\ Len(gameHistory) = 2

\* C16: every step that changes the history puts one new entry at index 0,
\* keeps the entries it held in their order behind it, and drops the last of
\* them only when there were 50; the list never holds more than 50 entries,
\* and the stored item is the list.
C16_HistoryCapped ==
  /\ [](Len(gameHistory) <= 50)
  /\ [][gameHistory' # gameHistory =>
          /\ Len(gameHistory') = (IF Len(gameHistory) = 50 THEN 50 ELSE Len(gameHistory) + 1)
          /\ gameHistory'[1].id >= 0
          /\ \A i \in 2 .. Len(gameHistory') : gameHistory'[i] = gameHistory[i - 1]
          /\ localStorage' = [kind |-> "json", value |-> gameHistory']]_vars

\* A win on a page with 50 stored entries: the list still holds 50, the win
\* first, and the oldest stored entry is gone.
C16_Witness ==
  /\ showVictoryModal
  /\ Len(gameHistory) = 50
  /\ gameHistory[1].id >= 0
  /\ gameHistory[2].id < 0
  /\ gameHistory[50].time = 2

\* C17: loading the history leaves no exception uncaught, and on a page whose
\* stored item is absent or is not JSON the history before the first win is
\* empty.
C17_LoadNeverFails ==
  /\ uncaught = "none"
  /\ (localStorage.kind \in {"absent", "corrupt"}) => gameHistory = <<>>

\* The hint budget and the number of removed cells of each difficulty.
budgetOf(d) ==
  IF d = "tutorial" THEN 7 ELSE IF d = "facil" THEN 5 ELSE IF d = "medio" THEN 3
  ELSE IF d = "dificil" THEN 1 ELSE 0

removedOf(d) ==
  IF d = "tutorial" THEN 10 ELSE IF d = "facil" THEN 30 ELSE IF d = "medio" THEN 40
  ELSE IF d = "dificil" THEN 50 ELSE 64

C19_HashInjective ==
  /\ pc = "hashed" =>
       /\ Len(currentPuzzleHash) = 81
       /\ \A k \in Cells : currentPuzzleHash[k + 1] = DigitChars[grid[CellRow(k)][CellCol(k)] + 1]
       /\ currentPuzzleHash = hashPuzzle(grid)
  /\ (hashPuzzle(grid) = hashPuzzle(completeSolution)) <=> (grid = completeSolution)

\* A grid has been hashed next to one that differs from it in two cells, one
\* of them blank in the first and given in the second.
C19_Witness ==
  /\ pc = "hashed"
  /\ grid[8][8] = 0
  /\ completeSolution[8][8] # 0
  /\ completeSolution[0][1] # grid[0][1]
  /\ currentPuzzleHash # hashPuzzle(completeSolution)

\* The digits in the row, in the column and in the 3x3 block of a cell.
seenFrom(g, row, col) ==
  {g[row][x] : x \in 0 .. 8} \cup {g[x][col] : x \in 0 .. 8}
    \cup {g[r][c] : r \in (row - (row % 3)) .. (row - (row % 3) + 2),
                    c \in (col - (col % 3)) .. (col - (col % 3) + 2)}

\* C20: on every grid fillGrid passes to it, for every cell and every digit,
\* isValid is false exactly when the digit stands in the row, in the column
\* or in the 3x3 block of the cell, whose origin is (row - row % 3,
\* col - col % 3).
C20_IsValidExact ==
  \A k \in Cells : \A num \in 1 .. 9 :
    isValid(grid, CellRow(k), CellCol(k), num) <=> (num \notin seenFrom(grid, CellRow(k), CellCol(k)))

\* isValid rejects a digit that stands in the column of the cell only, and
\* accepts another, on a grid fillGrid is filling.
C20_Witness ==
  /\ pc = "numbers"
  /\ \E k \in Cells : \E num \in 1 .. 9 :
        LET row == CellRow(k)
            col == CellCol(k)
        IN  /\ grid[row][col] = 0
            /\ ~isValid(grid, row, col, num)
            /\ \A x \in 0 .. 8 : grid[row][x] # num
            /\ \A r \in (row - (row % 3)) .. (row - (row % 3) + 2) :
                 \A c \in (col - (col % 3)) .. (col - (col % 3) + 2) : grid[r][c] # num
            /\ \E other \in 1 .. 9 : isValid(grid, row, col, other)

\* C21: a step of useHint with a hint left and a cell that is empty and not
\* fixed changes one cell only; the cell was empty and not fixed, and holds
\* the digit of the solution and is fixed afterwards; and no step of
\* updateCell changes a cell that is fixed.
C21_HintFrame ==
  /\ [][(useHintStep /\ hintsRemaining > 0 /\ emptyCells(board) # {}) =>
          \E k \in Cells :
            /\ board[CellRow(k)][CellCol(k)] = [value |-> 0, isFixed |-> FALSE]
            /\ board'[CellRow(k)][CellCol(k)] =
                 [value |-> solution[CellRow(k)][CellCol(k)], isFixed |-> TRUE]
            /\ \A m \in Cells \ {k} :
                 board'[CellRow(m)][CellCol(m)] = board[CellRow(m)][CellCol(m)]]_vars
  /\ [][(sessionStep /\ updateCellStep) =>
          \A k \in Cells : board[CellRow(k)][CellCol(k)].isFixed =>
            board'[CellRow(k)][CellCol(k)] = board[CellRow(k)][CellCol(k)]]_vars

\* A hint has revealed a cell of the tutorial puzzle and the player has
\* typed digits since: the revealed cell is fixed and holds its digit.
C21_Witness ==
  /\ Playing
  /\ selectedDifficulty = "tutorial"
  /\ hintsRemaining = 6
  /\ Cardinality({k \in Cells : board[CellRow(k)][CellCol(k)].isFixed}) = 72
  /\ revealed([r \in Idx |-> [c \in Idx |->
        IF board[r][c].isFixed THEN board[r][c]
        ELSE [value |-> solution[r][c], isFixed |-> TRUE]]])
  /\ Cardinality(emptyCells(board)) = 4

\* C22: no step of useHint opens the victory modal, changes the history or
\* touches the timer, not even the step that fills the last empty cell and
\* leaves the board equal to the solution.
C22_HintNeverWins ==
  [][useHintStep =>
       /\ showVictoryModal' = showVictoryModal
       /\ gameHistory' = gameHistory
       /\ localStorage' = localStorage
       /\ timerInterval' = timerInterval
       /\ intervals' = intervals
       /\ elapsedTime' = elapsedTime]_vars

\* A hint has filled the last empty cell: the board is the solution, the
\* game is still played, its timer runs and no entry is saved.
C22_Witness ==
  /\ Playing
  /\ solved(board)
  /\ hintsRemaining = hintsSettings[selectedDifficulty] - 1
  /\ timerInterval \in intervals
  /\ gameHistory = <<>>

\* A step of toggleHistory within a session.
toggleHistoryStep == sessionStep /\ showHistoryModal' # showHistoryModal

\* C23: a step of toggleHistory never changes the pause flag; one that opens
\* the view while the game is played leaves no interval alive; one that
\* closes it while the game is played and not paused leaves an interval
\* alive, held in timerInterval; and while the game is paused a step of
\* toggleHistory changes neither the handle nor the intervals, of which none
\* is alive.
C23_HistoryViewTimer ==
  [][toggleHistoryStep =>
       /\ isPaused' = isPaused
       /\ (Playing /\ showHistoryModal') => intervals' = {}
       /\ (Playing /\ ~showHistoryModal') => timerInterval' \in intervals'
       /\ isPaused => /\ timerInterval' = timerInterval
                      /\ intervals' = intervals
                      /\ intervals' = {}]_vars

\* A valid completion of the grid exists: the grid is full, or some digit that
\* stands neither in the row nor in the column nor in the block of its first
\* empty cell can be put there so that a completion exists.
RECURSIVE completable(_)
completable(g) ==
  LET k == FirstEmptyCell(g)
  IN  IF k = -1 THEN TRUE
      ELSE \E d \in 1 .. 9 :
             /\ d \notin seenFrom(g, CellRow(k), CellCol(k))
             /\ completable([g EXCEPT ![CellRow(k)][CellCol(k)] = d])

\* C24: on a partial grid whose filled cells are free of conflicts, fillGrid
\* returns true if and only if the grid has a valid completion, and then the
\* grid it leaves is complete and valid and holds, in every cell that was
\* filled, the digit that was there.
C24_FillIffCompletable ==
  pc = "filled" =>
    /\ ret <=> completable(completeSolution)
    /\ ret => /\ validGrid(grid)
              /\ \A k \in Cells :
                   completeSolution[CellRow(k)][CellCol(k)] # 0 =>
                     grid[CellRow(k)][CellCol(k)] = completeSolution[CellRow(k)][CellCol(k)]

\* fillGrid has returned false on a grid with three empty cells that has no
\* completion.
C24_Witness ==
  /\ pc = "filled"
  /\ ~ret
  /\ Cardinality({k \in Cells : completeSolution[CellRow(k)][CellCol(k)] = 0}) = 3
  /\ ~completable(completeSolution)

\* C25: removeNumbers, called with a count that does not exceed the number of
\* filled cells of the grid, returns; until then its counter removed never
\* decreases and never exceeds count, and it is count when the call returns.
C25_RemoveTerminates ==
  /\ <>(pc = "carved" /\ removed = count)
  /\ [](removed <= count)
  /\ [][removed' >= removed]_vars

\* removeNumbers has returned from a call that emptied the 70 filled cells of
\* a grid that had 11 empty ones.
C25_Witness ==
  /\ pc = "carved"
  /\ NonZeroCount(completeSolution) = 70
  /\ count = 70
  /\ removed = 70
  /\ NonZeroCount(grid) = 0

\* C26: the solution of a session is the copy of the grid that fillGrid
\* filled: removeNumbers leaves the copy as it is while it carves the grid,
\* the solution of a started session is that copy, a valid complete grid, and
\* no step of the session changes it (setting a cell, a hint, giving up,
\* pausing and resuming, the history, the victory).
C26_SolutionImmutable ==
  /\ []((pc = "idle" /\ gameStarted) => (solution = completeSolution /\ validGrid(solution)))
  /\ [][pc = "removeNumbers" => completeSolution' = completeSolution]_vars
  /\ [][(pc = "idle" /\ gameStarted /\ gameStarted') => solution' = solution]_vars

\* The player has given up a paused session with the history opened: the
\* board shows the solution, which is the filled grid and not the carved one.
C26_Witness ==
  /\ pc = "idle"
  /\ gameStarted
  /\ hasGivenUp
  /\ isPaused
  /\ showHistoryModal
  /\ validGrid(solution)
  /\ grid # solution
  /\ \A row \in Idx : \A col \in Idx : board[row][col].value = solution[row][col]

\* C27: in a started session every fixed cell holds a digit, the one the
\* solution has at its position, and no step of the session changes a fixed
\* cell: it stays fixed and keeps its value.
C27_FixedCells ==
  /\ []((pc = "idle" /\ gameStarted) =>
          \A row \in Idx : \A col \in Idx :
            board[row][col].isFixed =>
              (board[row][col].value # 0 /\ board[row][col].value = solution[row][col]))
  /\ [][(pc = "idle" /\ gameStarted /\ gameStarted') =>
          \A row \in Idx : \A col \in Idx :
            board[row][col].isFixed => board'[row][col] = board[row][col]]_vars

\* A session not given up where a hint has fixed a cell that the puzzle left
\* empty and the player has typed a digit that is not the solution's in
\* another cell.
C27_Witness ==
  /\ pc = "idle"
  /\ gameStarted
  /\ ~hasGivenUp
  /\ \E row \in Idx : \E col \in Idx : grid[row][col] = 0 /\ board[row][col].isFixed
  /\ \E row \in Idx : \E col \in Idx :
       /\ ~board[row][col].isFixed
       /\ board[row][col].value \notin {0, solution[row][col]}

\* C28: in a started session that has not been given up, hintsRemaining is
\* between 0 and the hint budget of the difficulty, and the number of fixed
\* cells is 81 less the cells removed for the difficulty plus the hints used
\* (the budget less hintsRemaining): each hint used has fixed one more cell.
C28_HintAccounting ==
  (pc = "idle" /\ gameStarted /\ ~hasGivenUp) =>
    /\ hintsRemaining >= 0
    /\ hintsRemaining <= budgetOf(selectedDifficulty)
    /\ Cardinality({k \in Cells : board[CellRow(k)][CellCol(k)].isFixed})
         = (81 - removedOf(selectedDifficulty))
           + (budgetOf(selectedDifficulty) - hintsRemaining)

\* A session not given up where a hint has been used on a board that the
\* player has filled but for one cell: the hint fixed that cell, and the cells
\* that are fixed are one more than the puzzle gave.
C28_Witness ==
  /\ pc = "idle"
  /\ gameStarted
  /\ ~hasGivenUp
  /\ hintsRemaining = budgetOf(selectedDifficulty) - 1
  /\ emptyCells(board) = {}
  /\ Cardinality({k \in Cells : grid[CellRow(k)][CellCol(k)] # 0})
       = 81 - removedOf(selectedDifficulty)
  /\ Cardinality({k \in Cells : board[CellRow(k)][CellCol(k)].isFixed})
       = 82 - removedOf(selectedDifficulty)

\* The grid as it was when the innermost call that runs, or that has just
\* returned, was entered: the grid passed to the outermost call, with the
\* digit that each call on the stack has placed in its cell.
gridAtEntry ==
  [r \in Idx |-> [c \in Idx |->
     IF \E n \in 1 .. Len(stack) : stack[n].row = r /\ stack[n].col = c
     THEN LET n == CHOOSE m \in 1 .. Len(stack) : stack[m].row = r /\ stack[m].col = c
          IN  shuffledNumbers(seed, r, c)[stack[n].i]
     ELSE completeSolution[r][c]]]

\* C29: when a call of fillGrid returns false, to a call of fillGrid or to
\* the caller of the outermost one, the grid is the grid it was entered with:
\* the cells the failed search has written are 0 again, and every cell that
\* was filled holds the digit it held.
C29_FailedFillRestores ==
  ((pc = "return" \/ pc = "filled") /\ ~ret) => grid = gridAtEntry

\* A call of fillGrid made by another call has returned false after a search:
\* its cell, empty again, admits a digit, which the call has placed and
\* taken back.
C29_Witness ==
  /\ pc = "return"
  /\ ~ret
  /\ stack # <<>>
  /\ \E k \in Cells :
       /\ k = FirstEmptyCell(grid)
       /\ completeSolution[CellRow(k)][CellCol(k)] = 0
       /\ \E num \in Digits : isValid(grid, CellRow(k), CellCol(k), num)
====
